---- MODULE Spec2Model ----
(***************************************************************************)
(* Model of the log upload pipeline of logs-sender-api: the in-memory      *)
(* fixed-window rate limiter (app/lib/ratelimit.ts), the access gate and   *)
(* audit store (app/lib/database.ts), the relay client (lib/telegram), the *)
(* geolocation enricher (lib/geolocation) and the upload handler           *)
(* POST /api/[chat_id]/upload.                                             *)
(***************************************************************************)
EXTENDS Integers, Sequences, FiniteSets, TLC

(***************************************************************************)
(* Program constants                                                       *)
(***************************************************************************)
\* new RateLimiter(60 * 1000, 10): window length in milliseconds
windowMs == 60 * 1000
\* new RateLimiter(60 * 1000, 10): requests allowed per window
maxRequests == 10

(***************************************************************************)
(* Bounds of the model                                                     *)
(***************************************************************************)
\* the clock takes the values e * windowMs + o, e in 0..MaxEpochs, o in 0..MaxOffset
MaxEpochs == 1
MaxOffset == 2
\* check(key) is called at most MaxCalls times within one window of a key
MaxCalls == 12
\* sendLogs is called with strings of MAX_MESSAGE_LENGTH - MaxDelta up to
\* MAX_MESSAGE_LENGTH + MaxDelta characters
MaxDelta == 2
\* sanitizeContent is called with texts of up to MaxPieces pieces
MaxPieces == 3
\* upload requests of one client in flight at once
MaxInFlight == 3
\* calls of registerUser, in sequence or at once
MaxRegistrations == 3

\* client keys (IP addresses): a private one and a public one
Keys == {"10.0.0.1", "8.8.8.8"}

\* the values Date.now() takes
Times == {e * windowMs + o : e \in 0..MaxEpochs, o \in 0..MaxOffset}

(***************************************************************************)
(* RateLimiter (app/lib/ratelimit.ts).  The Map `limits` is a function     *)
(* whose domain is the set of keys that have an entry.                     *)
(***************************************************************************)
\* Map.set(key, entry)
MapSet(m, key, entry) ==
    [x \in (DOMAIN m) \cup {key} |-> IF x = key THEN entry ELSE m[x]]

\* Map.delete over a set of keys
MapDelete(m, keys) ==
    [x \in (DOMAIN m) \ keys |-> m[x]]

NewEntryZero(t) == [count |-> 0, firstRequest |-> t]

\* { count: 1, firstRequest: now }
NewEntry(t) == [count |-> 1, firstRequest |-> t]

windowExpiredOffByOne(entry, t) == t - entry.firstRequest >= windowMs

\* now - entry.firstRequest > this.windowMs
windowExpired(entry, t) == t - entry.firstRequest > windowMs

atCapacityOffByOne(entry) == entry.count > maxRequests

\* entry.count >= this.maxRequests
atCapacity(entry) == entry.count >= maxRequests

checkLostUpdate(lim, key, t) ==
    IF key \notin DOMAIN lim
    THEN [limits |-> MapSet(lim, key, NewEntry(t)),
          allowed |-> TRUE, remaining |-> maxRequests - 1]
    ELSE IF windowExpired(lim[key], t)
    THEN [limits |-> MapSet(lim, key, NewEntry(t)),
          allowed |-> TRUE, remaining |-> maxRequests - 1]
    ELSE IF atCapacity(lim[key])
    THEN [limits |-> lim, allowed |-> FALSE, remaining |-> 0]
    ELSE [limits |-> lim,
          allowed |-> TRUE, remaining |-> maxRequests - (lim[key].count + 1)]

checkRejectionExtends(lim, key, t) ==
    IF key \notin DOMAIN lim
    THEN [limits |-> MapSet(lim, key, NewEntry(t)),
          allowed |-> TRUE, remaining |-> maxRequests - 1]
    ELSE IF windowExpired(lim[key], t)
    THEN [limits |-> MapSet(lim, key, NewEntry(t)),
          allowed |-> TRUE, remaining |-> maxRequests - 1]
    ELSE IF atCapacity(lim[key])
    THEN [limits |-> MapSet(lim, key, [lim[key] EXCEPT !.firstRequest = t]),
          allowed |-> FALSE, remaining |-> 0]
    ELSE LET entry == [lim[key] EXCEPT !.count = @ + 1]
         IN  [limits |-> MapSet(lim, key, entry),
              allowed |-> TRUE, remaining |-> maxRequests - entry.count]

\* RateLimiter.check(key) called at time t on the map lim: the map it leaves
\* and the value it returns
check(lim, key, t) ==
    IF key \notin DOMAIN lim
    THEN [limits |-> MapSet(lim, key, NewEntry(t)),
          allowed |-> TRUE, remaining |-> maxRequests - 1]
    ELSE IF windowExpired(lim[key], t)
    THEN [limits |-> MapSet(lim, key, NewEntry(t)),
          allowed |-> TRUE, remaining |-> maxRequests - 1]
    ELSE IF atCapacity(lim[key])
    THEN [limits |-> lim, allowed |-> FALSE, remaining |-> 0]
    ELSE LET entry == [lim[key] EXCEPT !.count = @ + 1]
         IN  [limits |-> MapSet(lim, key, entry),
              allowed |-> TRUE, remaining |-> maxRequests - entry.count]

cleanupEager(lim, t) ==
    MapDelete(lim, {k \in DOMAIN lim : t - lim[k].firstRequest >= windowMs})

\* RateLimiter.cleanup() run at time t on the map lim
cleanup(lim, t) ==
    MapDelete(lim, {k \in DOMAIN lim : windowExpired(lim[k], t)})

(***************************************************************************)
(* Strings are sequences of one-character strings.  A missing value (null, *)
(* undefined) of a string the code only tests for truthiness is the empty  *)
(* sequence: the code treats both alike.                                   *)
(***************************************************************************)
\* undefined, for the optional fields that are plain values
Absent == "<absent>"

\* \s of the regular expressions and String.trim
IsSpace(c) == c \in {" ", "\n", "\t"}

\* A-Z and a-z, in order
UpperCase ==
    <<"A", "B", "C", "D", "E", "F", "G", "H", "I", "J", "K", "L", "M",
      "N", "O", "P", "Q", "R", "S", "T", "U", "V", "W", "X", "Y", "Z">>
LowerCase ==
    <<"a", "b", "c", "d", "e", "f", "g", "h", "i", "j", "k", "l", "m",
      "n", "o", "p", "q", "r", "s", "t", "u", "v", "w", "x", "y", "z">>

UpperCaseLetters == {UpperCase[i] : i \in 1..26}
Letters == UpperCaseLetters \cup {LowerCase[i] : i \in 1..26}
Digits == {"0", "1", "2", "3", "4", "5", "6", "7", "8", "9"}

\* [a-zA-Z]
IsLetter(c) == c \in Letters

\* [0-9]
IsDigit(c) == c \in Digits

\* [a-zA-Z0-9-]
IsDomainChar(c) == IsLetter(c) \/ IsDigit(c) \/ c = "-"

\* [^\s]
IsNonSpace(c) == ~IsSpace(c)

\* [\w\d_]
IsWordChar(c) == IsLetter(c) \/ IsDigit(c) \/ c = "_"

\* U+0130 (capital I with dot above) and U+0307 (combining dot above), one
\* UTF-16 code unit each
CapitalIDot == "<U+0130>"
CombiningDot == "<U+0307>"

\* String.toLowerCase on one character: the code units it becomes.  U+0130
\* is the one character whose lower case is longer: i followed by U+0307
LowerChar(c) ==
    IF c \in UpperCaseLetters
    THEN <<LowerCase[CHOOSE i \in 1..26 : c = UpperCase[i]]>>
    ELSE IF c = CapitalIDot THEN <<"i", CombiningDot>>
    ELSE <<c>>

\* String.toLowerCase
RECURSIVE toLowerCase(_)
toLowerCase(s) ==
    IF s = << >> THEN s ELSE LowerChar(Head(s)) \o toLowerCase(Tail(s))

RECURSIVE TrimStart(_)
TrimStart(s) ==
    IF s # << >> /\ IsSpace(Head(s)) THEN TrimStart(Tail(s)) ELSE s

RECURSIVE TrimEnd(_)
TrimEnd(s) ==
    IF s # << >> /\ IsSpace(s[Len(s)]) THEN TrimEnd(SubSeq(s, 1, Len(s) - 1)) ELSE s

\* String.trim
trim(s) == TrimEnd(TrimStart(s))

\* String.lastIndexOf(c): the 0-based index of the last c in s, -1 when none
lastIndexOf(s, c) ==
    LET hits == {i \in 1..Len(s) : s[i] = c}
    IN  IF hits = {} THEN 0 - 1
        ELSE (CHOOSE i \in hits : \A j \in hits : j <= i) - 1

\* String.substring(start): a negative start counts as 0
substring(s, start) ==
    LET from == IF start < 0 THEN 0 ELSE start
    IN  SubSeq(s, from + 1, Len(s))

\* the number of leading word characters of s
RECURSIVE WordRun(_)
WordRun(s) ==
    IF s # << >> /\ IsWordChar(Head(s)) THEN 1 + WordRun(Tail(s)) ELSE 0

MentionRemoved ==
    <<"[", "M", "E", "N", "T", "I", "O", "N", " ", "R", "E", "M", "O", "V", "E", "D", "]">>

\* the fewest word characters after @ that make a mention: the + of
\* /@[\w\d_]+/g in lib/sanitizer, the module the upload handler imports
MinMention == 1

\* sanitized.replace(/@[\w\d_]+/g, '[MENTION REMOVED]')
RECURSIVE replaceMentions(_)
replaceMentions(s) ==
    IF s = << >> THEN s
    ELSE IF Head(s) = "@" /\ WordRun(Tail(s)) >= MinMention
         THEN MentionRemoved
              \o replaceMentions(SubSeq(s, 2 + WordRun(Tail(s)), Len(s)))
         ELSE <<Head(s)>> \o replaceMentions(Tail(s))

LinkRemovedNested == <<"[", "a", ".", "b", ".", "c", "o", "]">>

LinkRemoved == <<"[", "L", "I", "N", "K", " ", "R", "E", "M", "O", "V", "E", "D", "]">>

\* the character classes of the URL expressions
InClass(class, c) ==
    CASE class = "[^\\s]" -> IsNonSpace(c)
      [] class = "[a-zA-Z0-9-]" -> IsDomainChar(c)
      [] class = "[a-zA-Z]" -> IsLetter(c)

\* the number of characters of s from position i on (the first is 1) that
\* are all in the class InClass: a greedy X+ or X* at i
RECURSIVE RunLen(_, _, _)
RunLen(s, i, class) ==
    IF i <= Len(s) /\ InClass(class, s[i]) THEN 1 + RunLen(s, i + 1, class) ELSE 0

\* the literal lit is at position i of s; with the flag i, whatever the case
\* of the letters of s (lit is given in lower case)
LiteralAt(s, i, lit, ignoreCase) ==
    /\ i + Len(lit) - 1 <= Len(s)
    /\ \A j \in 1..Len(lit) :
          \/ s[i + j - 1] = lit[j]
          \/ ignoreCase /\ LowerChar(s[i + j - 1]) = <<lit[j]>>

\* lit[^\s]+ at position i: the length of the match, 0 when there is none
PrefixedRun(s, i, lit, ignoreCase) ==
    IF /\ LiteralAt(s, i, lit, ignoreCase)
       /\ RunLen(s, i + Len(lit), "[^\\s]") >= 1
    THEN Len(lit) + RunLen(s, i + Len(lit), "[^\\s]")
    ELSE 0

\* the first of the lengths that is not 0: the alternatives of a regular
\* expression are tried in order
FirstMatch(lengths) ==
    LET hits == {k \in 1..Len(lengths) : lengths[k] > 0}
    IN  IF hits = {} THEN 0
        ELSE lengths[CHOOSE k \in hits : \A h \in hits : k <= h]

\* (https?:\/\/[^\s]+) at position i
HttpMatch(s, i, ignoreCase) ==
    FirstMatch(<<PrefixedRun(s, i, <<"h", "t", "t", "p", "s", ":", "/", "/">>, ignoreCase),
                 PrefixedRun(s, i, <<"h", "t", "t", "p", ":", "/", "/">>, ignoreCase)>>)

\* (www\.[^\s]+) at position i
WwwMatch(s, i, ignoreCase) == PrefixedRun(s, i, <<"w", "w", "w", ".">>, ignoreCase)

\* ([a-zA-Z0-9-]+\.[a-zA-Z0-9-]+\.[a-zA-Z]{2,}) at position i.  No class
\* holds '.', so each greedy run ends where the '.' has to be
DomainMatch(s, i) ==
    LET a == RunLen(s, i, "[a-zA-Z0-9-]")
        b == RunLen(s, i + a + 1, "[a-zA-Z0-9-]")
        c == RunLen(s, i + a + b + 2, "[a-zA-Z]")
    IN  IF /\ a >= 1
           /\ i + a <= Len(s) /\ s[i + a] = "."
           /\ b >= 1
           /\ i + a + b + 1 <= Len(s) /\ s[i + a + b + 1] = "."
           /\ c >= 2
        THEN a + b + c + 2
        ELSE 0

\* urlRegex of lib/sanitizer at position i: the length of the match, 0 when
\* there is none
urlRegex(s, i) ==
    FirstMatch(<<HttpMatch(s, i, FALSE), WwwMatch(s, i, FALSE), DomainMatch(s, i)>>)

\* String.replace(urlRegex, '[LINK REMOVED]') with the flag g, from position
\* i on: after a match the search goes on behind it
RECURSIVE replaceUrlsFrom(_, _)
replaceUrlsFrom(s, i) ==
    IF i > Len(s) THEN << >>
    ELSE LET m == urlRegex(s, i)
         IN  IF m > 0
             THEN LinkRemoved \o replaceUrlsFrom(s, i + m)
             ELSE <<s[i]>> \o replaceUrlsFrom(s, i + 1)

\* sanitized.replace(urlRegex, '[LINK REMOVED]')
replaceUrls(s) == replaceUrlsFrom(s, 1)

\* sanitizeContent(text) of lib/sanitizer
sanitizeContent(text) ==
    IF text = << >> THEN text ELSE replaceMentions(replaceUrls(text))

(***************************************************************************)
(* The second sanitizeContent, of app/lib/ratelimit.ts                     *)
(***************************************************************************)
\* ((?:t|telegram)\.me\/[^\s]+) at position i, with the flag i
TelegramMatch(s, i) ==
    FirstMatch(<<PrefixedRun(s, i, <<"t", ".", "m", "e", "/">>, TRUE),
                 PrefixedRun(s, i, <<"t", "e", "l", "e", "g", "r", "a", "m", ".", "m", "e", "/">>, TRUE)>>)

\* (?:com|org|net|io|me|xyz|biz|info), in the order of the alternation
CommonTlds ==
    <<<<"c", "o", "m">>, <<"o", "r", "g">>, <<"n", "e", "t">>, <<"i", "o">>, <<"m", "e">>, <<"x", "y", "z">>, <<"b", "i", "z">>, <<"i", "n", "f", "o">>>>

\* (?=\s|$|\/) at position i
TldBoundaryAt(s, i) == i > Len(s) \/ IsSpace(s[i]) \/ s[i] = "/"

\* ([a-zA-Z0-9-]+\.(?:com|org|net|io|me|xyz|biz|info)(?=\s|$|\/)) at
\* position i, with the flag i
CommonDomainMatch(s, i) ==
    LET a == RunLen(s, i, "[a-zA-Z0-9-]")
        tld(k) == IF /\ LiteralAt(s, i + a + 1, CommonTlds[k], TRUE)
                     /\ TldBoundaryAt(s, i + a + 1 + Len(CommonTlds[k]))
                  THEN a + 1 + Len(CommonTlds[k])
                  ELSE 0
    IN  IF a >= 1 /\ i + a <= Len(s) /\ s[i + a] = "."
        THEN FirstMatch([k \in 1..Len(CommonTlds) |-> tld(k)])
        ELSE 0

\* urlRegex of app/lib/ratelimit.ts (flags gi) at position i
urlRegexRateLimit(s, i) ==
    FirstMatch(<<HttpMatch(s, i, TRUE), WwwMatch(s, i, TRUE),
                 TelegramMatch(s, i), CommonDomainMatch(s, i)>>)

RECURSIVE replaceUrlsRateLimitFrom(_, _)
replaceUrlsRateLimitFrom(s, i) ==
    IF i > Len(s) THEN << >>
    ELSE LET m == urlRegexRateLimit(s, i)
         IN  IF m > 0
             THEN LinkRemoved \o replaceUrlsRateLimitFrom(s, i + m)
             ELSE <<s[i]>> \o replaceUrlsRateLimitFrom(s, i + 1)

\* the {3,} of /@[\w\d_]{3,}/g
MinMentionRateLimit == 3

\* sanitized.replace(/@[\w\d_]{3,}/g, '[MENTION REMOVED]')
RECURSIVE replaceMentionsRateLimit(_)
replaceMentionsRateLimit(s) ==
    IF s = << >> THEN s
    ELSE IF Head(s) = "@" /\ WordRun(Tail(s)) >= MinMentionRateLimit
         THEN MentionRemoved
              \o replaceMentionsRateLimit(SubSeq(s, 2 + WordRun(Tail(s)), Len(s)))
         ELSE <<Head(s)>> \o replaceMentionsRateLimit(Tail(s))

\* sanitizeContent(text) of app/lib/ratelimit.ts
sanitizeContentRateLimit(text) ==
    IF text = << >> THEN text
    ELSE replaceMentionsRateLimit(replaceUrlsRateLimitFrom(text, 1))

(***************************************************************************)
(* Geolocation enricher (lib/geolocation)                                  *)
(***************************************************************************)
\* isPrivateIP(ip): of the keys of the model, 10.0.0.1 matches /^10\./
isPrivateIP(ip) == ip \in {"10.0.0.1"}

\* { ip }: every location field absent
GeoAbsent ==
    [country |-> Absent, countryCode |-> Absent, city |-> Absent,
     latitude |-> Absent, longitude |-> Absent]

\* the fixed result for private addresses
GeoLocal ==
    [country |-> "Local", countryCode |-> "XX", city |-> "Local Network",
     latitude |-> Absent, longitude |-> Absent]

\* a result of ip-api.com with status "success"
GeoFound ==
    [country |-> "United States", countryCode |-> "US", city |-> "Ashburn",
     latitude |-> "39.03", longitude |-> "-77.5"]

\* what the lookup of ip-api.com can do: answer with status success, answer
\* with another status, or fail (network error, unreadable answer)
GeoOutcomes == {"success", "fail", "throws"}

getGeoLocationResultStale(outcome) == GeoFound

\* the value getGeoLocation resolves with after the fetch ended with outcome
getGeoLocationResult(outcome) ==
    IF outcome = "success" THEN GeoFound ELSE GeoAbsent

\* the promise getGeoLocation(ip) returns, up to its first await
getGeoLocation(ip) ==
    IF isPrivateIP(ip)
    THEN [state |-> "resolved", value |-> GeoLocal]
    ELSE [state |-> "pending", value |-> GeoAbsent]

NoGeo == [state |-> "none", value |-> GeoAbsent]

(***************************************************************************)
(* Relay client (lib/telegram)                                             *)
(***************************************************************************)
\* const MAX_MESSAGE_LENGTH = 4000
MAX_MESSAGE_LENGTH == 4000

\* a value of JavaScript that counts as false in x || y, for optional strings
Falsy(x) == x \in {Absent, ""}

sendLogsOffByOne(content) ==
    IF ~content.isFile /\ Len(content.text) < MAX_MESSAGE_LENGTH
    THEN "sendMessage"
    ELSE "sendDocument"

\* the endpoint sendLogs calls for a content: sendMessage for a short string,
\* sendDocument for a long string and for a File
sendLogs(content) ==
    IF ~content.isFile /\ Len(content.text) <= MAX_MESSAGE_LENGTH
    THEN "sendMessage"
    ELSE "sendDocument"

\* text.replace(/ch/g, by) for a one-character pattern: every occurrence of
\* ch replaced by the string by
RECURSIVE replaceAll(_, _, _)
replaceAll(text, ch, by) ==
    IF Len(text) = 0 THEN << >>
    ELSE IF Len(text) = 1 THEN (IF text[1] = ch THEN by ELSE text)
    ELSE LET half == Len(text) \div 2
         IN  replaceAll(SubSeq(text, 1, half), ch, by)
                \o replaceAll(SubSeq(text, half + 1, Len(text)), ch, by)

\* escapeHtml(text): & first, then < and >
escapeHtml(text) ==
    replaceAll(replaceAll(replaceAll(text, "&", <<"&", "a", "m", "p", ";">>),
                          "<", <<"&", "l", "t", ";">>),
               ">", <<"&", "g", "t", ";">>)

\* formattedMessage: the caption in bold when there is one, two newlines,
\* and the escaped content in a pre block
formattedMessage(content, caption) ==
    (IF caption # << >>
     THEN <<"<", "b", ">">> \o caption \o <<"<", "/", "b", ">", "\n", "\n">>
     ELSE << >>)
    \o <<"<", "p", "r", "e", ">">> \o escapeHtml(content)
    \o <<"<", "/", "p", "r", "e", ">">>

\* the message length the endpoint accepts ("Telegram limit is 4096")
TelegramLimit == 4096

\* how a call of sendMessage / sendDocument ends: fetch resolves and
\* response.json() yields a TelegramResponse, or one of the two throws
RelayOk == [throws |-> FALSE, ok |-> TRUE, description |-> Absent]

RelayOutcomes ==
    {RelayOk,
     [throws |-> FALSE, ok |-> FALSE, description |-> "Bad Request: chat not found"],
     [throws |-> FALSE, ok |-> FALSE, description |-> Absent],
     [throws |-> FALSE, ok |-> FALSE, description |-> ""],
     [throws |-> TRUE, ok |-> FALSE, description |-> "fetch failed"]}

NoResult == [throws |-> FALSE, ok |-> FALSE, description |-> "<no result>"]

(***************************************************************************)
(* Upload handler POST /api/[chat_id]/upload: the parts without state      *)
(***************************************************************************)
\* const MAX_SIZE = 18 * 1024 * 1024
MAX_SIZE == 18 * 1024 * 1024

\* const allowedExtensions = ['.log', '.txt', '.zip']
allowedExtensions ==
    {<<".", "l", "o", "g">>, <<".", "t", "x", "t">>, <<".", "z", "i", "p">>}

\* let filename = "logs.txt"
DefaultFilename == <<"l", "o", "g", "s", ".", "t", "x", "t">>

\* `Log received at ${new Date().toISOString()}`, the timestamp left out
DefaultCaption == <<"L", "o", "g", " ", "a", "t">>

\* filename.toLowerCase().substring(filename.lastIndexOf('.'))
fileExt(filename) == substring(toLowerCase(filename), lastIndexOf(filename, "."))

\* new Blob([text]).size, for texts of one-byte characters
BlobSize(text) == Len(text)

NoFile == [size |-> 0, name |-> << >>]

NoContent == [isFile |-> FALSE, text |-> << >>, size |-> 0]

NoError == [thrown |-> FALSE, isError |-> FALSE, message |-> Absent]

\* throw new Error(message): what the handler's callees throw are Errors
Thrown(message) == [thrown |-> TRUE, isError |-> TRUE, message |-> message]

CaughtMessageUnknown(error) == "Unknown error"

\* error instanceof Error ? error.message : "Unknown error"
CaughtMessage(error) == IF error.isError THEN error.message ELSE "Unknown error"

\* the partial LogEntry of the handler: { ip, userAgent, createdAt }
NewLogEntry(ip, userAgent, t) ==
    [chatId |-> << >>, filename |-> << >>, contentType |-> Absent,
     contentSize |-> 0, caption |-> << >>, ip |-> ip,
     country |-> Absent, countryCode |-> Absent, city |-> Absent,
     latitude |-> Absent, longitude |-> Absent, userAgent |-> userAgent,
     status |-> Absent, errorMessage |-> Absent, createdAt |-> t]

\* logEntry.status = "failed"; logEntry.errorMessage = message
Failed(le, message) == [le EXCEPT !.status = "failed", !.errorMessage = message]

\* NextResponse.json({ success: false, message, error }, { status }): every
\* response of the handler but the 200 one
Response(status, message, error) ==
    [success |-> FALSE, status |-> status, message |-> message, error |-> error]

\* NextResponse.json({ success: true, message }, { status: 200 })
Success(message) ==
    [success |-> TRUE, status |-> 200, message |-> message, error |-> Absent]

NoResponse == Response(0, "", "")

\* the handler threw outside its try block: it produces no response
Uncaught(message) == Response(0, "<uncaught>", message)

Reject(le, message, error) ==
    [kind |-> "respond", logEntry |-> Failed(le, message),
     response |-> Response(400, "Invalid request", error),
     thrown |-> NoError, content |-> NoContent, filename |-> << >>,
     caption |-> << >>]

Throw(le, message) ==
    [kind |-> "throw", logEntry |-> le, response |-> NoResponse,
     thrown |-> Thrown(message), content |-> NoContent, filename |-> << >>,
     caption |-> << >>]

\* lines 717-732: the entry is completed, the caption is made up when there
\* is none, caption and text content are sanitized
Send(le, content, contentType, contentSize, filename, caption) ==
    LET cap == sanitizeContent(IF caption = << >> THEN DefaultCaption ELSE caption)
    IN  [kind |-> "send",
         logEntry |-> [le EXCEPT !.contentType = contentType,
                                 !.filename = filename,
                                 !.contentSize = contentSize,
                                 !.caption = cap],
         response |-> NoResponse, thrown |-> NoError,
         content |-> IF content.isFile THEN content
                     ELSE [content EXCEPT !.text = sanitizeContent(@)],
         filename |-> filename, caption |-> cap]

fileTooLargeOffByOne(size) == size >= MAX_SIZE

\* file.size > MAX_SIZE
fileTooLarge(size) == size > MAX_SIZE

\* the branch for multipart/form-data
parseMultipart(le, body) ==
    LET filename0 == IF body.filename # << >> THEN body.filename ELSE DefaultFilename
    IN
    IF ~body.readable THEN Throw(le, "Failed to parse body as FormData.")
    ELSE IF body.file.size > 0
    THEN IF fileTooLarge(body.file.size)
         THEN Reject(le, "File too large", "File size exceeds 18MB limit")
         ELSE LET le1 == [le EXCEPT !.contentType = "file"]
                  filename == IF body.filename # << >> THEN filename0
                              ELSE IF body.file.name # << >> THEN body.file.name
                              ELSE DefaultFilename
              IN  IF fileExt(filename) \notin allowedExtensions
                  THEN Reject(le1, "Unsupported file type",
                              "Only .log, .txt, and .zip files are allowed")
                  ELSE Send(le1, [isFile |-> TRUE, text |-> << >>, size |-> body.file.size],
                            "file", body.file.size, filename, body.caption)
    ELSE IF body.text # << >> /\ trim(body.text) # << >>
    THEN Send(le, [isFile |-> FALSE, text |-> body.text, size |-> BlobSize(body.text)],
              "text", BlobSize(body.text), filename0, body.caption)
    ELSE Reject(le, "No content provided",
                "Either 'file' or 'text' must be provided in the form data")

\* the branch for application/json
parseJson(le, body) ==
    IF ~body.readable THEN Throw(le, "Unexpected end of JSON input")
    ELSE IF body.text = << >> \/ trim(body.text) = << >>
    THEN Reject(le, "No text provided", "'text' field is required in JSON body")
    ELSE LET logContent == sanitizeContent(body.text)
         IN  Send(le, [isFile |-> FALSE, text |-> logContent, size |-> BlobSize(body.text)],
                  "text", BlobSize(body.text),
                  IF body.filename # << >> THEN body.filename ELSE DefaultFilename,
                  body.caption)

parsePlainUnchecked(le, body) ==
    LET logContent == sanitizeContent(body.text)
    IN  Send(le, [isFile |-> FALSE, text |-> logContent, size |-> BlobSize(logContent)],
             "text", BlobSize(logContent), DefaultFilename, << >>)

\* the branch for text/plain
parsePlain(le, body) ==
    LET logContent == sanitizeContent(body.text)
        le1 == [le EXCEPT !.contentType = "text"]
    IN  IF logContent = << >> \/ trim(logContent) = << >>
        THEN Reject(le1, "Empty request body", "Request body cannot be empty")
        ELSE Send(le, [isFile |-> FALSE, text |-> logContent, size |-> BlobSize(logContent)],
                  "text", BlobSize(logContent), DefaultFilename, << >>)

\* lines 564-732 of the handler: the chat id, the body by content type, the
\* validation; what the handler does next
parseRequest(le0, input) ==
    LET le == [le0 EXCEPT !.chatId = input.chatId]
    IN  IF input.chatId = << >> \/ trim(input.chatId) = << >>
        THEN Reject(le, "chat_id is required", "chat_id is required in the URL path")
        ELSE IF input.body.ctype = "multipart/form-data" THEN parseMultipart(le, input.body)
        ELSE IF input.body.ctype = "application/json" THEN parseJson(le, input.body)
        ELSE IF input.body.ctype = "text/plain" THEN parsePlain(le, input.body)
        ELSE Reject(le, "Invalid content type",
                    "Content-Type must be multipart/form-data, application/json, or text/plain")

\* logEntry.errorMessage = result.description || "Telegram API error"
relayErrorMessageNoDefault(result) == result.description

relayErrorMessage(result) ==
    IF Falsy(result.description) THEN "Telegram API error" ELSE result.description

\* the response after the relay returned result and saveLog ended
\* (saveThrew: it threw, and the handler caught and logged that)
respondAfterRelayEscalating(result, saveThrew) ==
    IF saveThrew
    THEN Response(500, "Internal server error", "Database save error")
    ELSE IF ~result.ok
    THEN Response(502, "Failed to send logs to Telegram",
                  IF Falsy(result.description) THEN "Unknown Telegram API error"
                  ELSE result.description)
    ELSE Success("Logs sent successfully to Telegram")

respondAfterRelay(result, saveThrew) ==
    IF ~result.ok
    THEN Response(502, "Failed to send logs to Telegram",
                  IF Falsy(result.description) THEN "Unknown Telegram API error"
                  ELSE result.description)
    ELSE Success("Logs sent successfully to Telegram")

(***************************************************************************)
(* Requests of the model                                                   *)
(***************************************************************************)
\* the upload requests, in the order in which they arrive
Requests == {1}

Body(ctype, readable, file, text, caption, filename) ==
    [ctype |-> ctype, readable |-> readable, file |-> file, text |-> text,
     caption |-> caption, filename |-> filename]

ChatId == <<"1">>

\* the chat id of the path and the body of a request: one of each kind the
\* handler tells apart
Inputs ==
    {[chatId |-> ChatId,
      body |-> Body("application/json", TRUE, NoFile, <<"a">>, <<"t">>, << >>)],
     [chatId |-> ChatId,
      body |-> Body("application/json", TRUE, NoFile, <<" ">>, << >>, << >>)],
     [chatId |-> ChatId,
      body |-> Body("application/json", FALSE, NoFile, << >>, << >>, << >>)],
     [chatId |-> <<" ">>,
      body |-> Body("application/json", TRUE, NoFile, <<"a">>, << >>, << >>)],
     [chatId |-> ChatId,
      body |-> Body("text/plain", TRUE, NoFile, <<"@", "a">>, << >>, << >>)],
     [chatId |-> ChatId,
      body |-> Body("text/plain", TRUE, NoFile, << >>, << >>, << >>)],
     [chatId |-> ChatId,
      body |-> Body("multipart/form-data", TRUE,
                    [size |-> MAX_SIZE, name |-> <<"a", ".", "L", "O", "G">>],
                    << >>, << >>, << >>)],
     [chatId |-> ChatId,
      body |-> Body("multipart/form-data", TRUE,
                    [size |-> MAX_SIZE + 1, name |-> <<"b", ".", "t", "x", "t">>],
                    << >>, << >>, << >>)],
     [chatId |-> ChatId,
      body |-> Body("multipart/form-data", TRUE,
                    [size |-> 1, name |-> <<"d", ".", "e", "x", "e">>],
                    << >>, << >>, << >>)],
     [chatId |-> ChatId,
      body |-> Body("multipart/form-data", TRUE, NoFile, << >>, << >>, << >>)],
     [chatId |-> ChatId,
      body |-> Body("application/xml", TRUE, NoFile, <<"a">>, << >>, << >>)],
     [chatId |-> ChatId,
      body |-> Body("text/plain", TRUE, NoFile, <<" ", "\n">>, << >>, << >>)],
     [chatId |-> ChatId,
      body |-> Body("multipart/form-data", TRUE,
                    [size |-> 1, name |-> <<"c", ".", "z", "i", "p">>],
                    << >>, << >>, << >>)],
     [chatId |-> ChatId,
      body |-> Body("multipart/form-data", TRUE,
                    [size |-> 1, name |-> <<"e">>],
                    << >>, << >>, << >>)],
     [chatId |-> ChatId,
      body |-> Body("multipart/form-data", TRUE,
                    [size |-> 1, name |-> <<"d", ".", "e", "x", "e">>],
                    << >>, << >>, <<"b", ".", "t", "x", "t">>)],
     [chatId |-> ChatId,
      body |-> Body("multipart/form-data", TRUE,
                    [size |-> 1, name |-> <<"a", ".", "l", "o", "g">>],
                    << >>, << >>, <<"e">>)],
     [chatId |-> ChatId,
      body |-> Body("multipart/form-data", TRUE,
                    [size |-> 1, name |-> << >>],
                    << >>, << >>, << >>)],
     [chatId |-> ChatId,
      body |-> Body("multipart/form-data", TRUE,
                    [size |-> 1, name |-> <<CapitalIDot, ".", "l", "o", "g">>],
                    << >>, << >>, << >>)]}

NoInput == [chatId |-> << >>, body |-> Body("", FALSE, NoFile, << >>, << >>, << >>)]

(***************************************************************************)
(* State                                                                   *)
(***************************************************************************)
VARIABLES
    now,            \* Date.now()
    limits,         \* RateLimiter.limits
    lastCheck,      \* the call of check made by the last step and its result
    callsInWindow,  \* per key: check calls since its current entry was created
    blocked,        \* the blocked_ips collection
    panicMode,      \* settings.panicMode
    configured,     \* !!TELEGRAM_BOT_TOKEN
    logs,           \* the logs collection
    req,            \* the upload requests and the position of their handlers
    call            \* the library call under way, for the library functions on their own

vars == <<now, limits, lastCheck, callsInWindow, blocked, panicMode,
          configured, logs, req, call>>

gateVars == <<blocked, panicMode, configured, logs, req, call>>

\* no call of check was made by the last step
NoCheck == [key |-> "", allowed |-> FALSE, remaining |-> 0 - 1, priorCalls |-> 0]

\* the call check(key) and what it returned; priorCalls: the calls made in
\* the window of key before this one
CheckOf(key, res) ==
    [key |-> key, allowed |-> res.allowed, remaining |-> res.remaining,
     priorCalls |-> callsInWindow[key]]

\* calls of check(key) since the entry of key was created, after one more call
\* that returned res: a call that creates or replaces the entry starts at 1
CallsAfter(key, res) ==
    IF /\ key \in DOMAIN limits
       /\ res.limits[key].firstRequest = limits[key].firstRequest
    THEN [callsInWindow EXCEPT ![key] = @ + 1]
    ELSE [callsInWindow EXCEPT ![key] = 1]

\* no library call is under way
NoCall == [fn |-> "none"]

\* a request that has not arrived.  Beside the handler's locals a request
\* records what happened to it: panic (panic mode was on when it arrived and
\* ever since), blockedOnArrival, isBlocked (what isIpBlocked answered),
\* relayCalls and saveCalls (calls of sendLogs and saveLog made for it),
\* geoOutcome (how the fetch of its geolocation lookup ended), window
\* (firstRequest of the limiter entry of its key when its check returned)
Idle ==
    [pc |-> "idle", ip |-> "", input |-> NoInput, panic |-> FALSE,
     blockedOnArrival |-> FALSE, allowed |-> FALSE, isBlocked |-> "unknown",
     geo |-> NoGeo, geoOutcome |-> "none", logEntry |-> NewLogEntry("", Absent, 0),
     content |-> NoContent, relayPath |-> "none", relayCalls |-> 0,
     result |-> NoResult, thrown |-> NoError, saveCalls |-> 0,
     saveThrew |-> FALSE, response |-> NoResponse, window |-> 0 - 1]

(***************************************************************************)
(* The rate limiter on its own: calls of check, the clock, the sweep       *)
(***************************************************************************)
InitRL ==
    /\ now = 0
    /\ limits = << >>
    /\ lastCheck = NoCheck
    /\ callsInWindow = [k \in Keys |-> 0]
    /\ blocked = {}
    /\ panicMode = FALSE
    /\ configured = TRUE
    /\ logs = {}
    /\ req = [r \in Requests |-> Idle]
    /\ call = NoCall

\* rateLimiter.check(key), called at the current time
CheckCall(key) ==
    /\ callsInWindow[key] < MaxCalls
    /\ LET res == check(limits, key, now)
       IN  /\ limits' = res.limits
           /\ lastCheck' = CheckOf(key, res)
           /\ callsInWindow' = CallsAfter(key, res)
    /\ UNCHANGED <<now, gateVars>>

\* time passes: Date.now() never decreases
Tick ==
    /\ \E t \in Times : t > now /\ now' = t
    /\ lastCheck' = NoCheck
    /\ UNCHANGED <<limits, callsInWindow, gateVars>>

\* setInterval(() => this.cleanup(), 60 * 1000)
Sweep ==
    /\ limits' = cleanup(limits, now)
    /\ callsInWindow' = [k \in Keys |->
                           IF k \in DOMAIN limits' THEN callsInWindow[k] ELSE 0]
    /\ lastCheck' = NoCheck
    /\ UNCHANGED <<now, gateVars>>

NextRL ==
    \/ \E key \in Keys : CheckCall(key)
    \/ Tick
    \/ Sweep

SpecRL == InitRL /\ [][NextRL]_vars

(***************************************************************************)
(* The limiter beside a second RateLimiter whose cleanup never runs: both  *)
(* receive the same calls of check at the same times                       *)
(***************************************************************************)
\* the second limiter: its map and what its last call of check returned
NeverSwept(lim, res) == [fn |-> "neverSwept", limits |-> lim, result |-> res]

\* { allowed, remaining } as check returns it
ResultOf(res) == [allowed |-> res.allowed, remaining |-> res.remaining]

InitSweep ==
    /\ now = 0
    /\ limits = << >>
    /\ lastCheck = NoCheck
    /\ callsInWindow = [k \in Keys |-> 0]
    /\ blocked = {}
    /\ panicMode = FALSE
    /\ configured = TRUE
    /\ logs = {}
    /\ req = [r \in Requests |-> Idle]
    /\ call = NeverSwept(<< >>, ResultOf(NoCheck))

\* check(key) called at the current time on both limiters
CheckBoth(key) ==
    /\ callsInWindow[key] < MaxCalls
    /\ LET res == check(limits, key, now)
           unswept == check(call.limits, key, now)
       IN  /\ limits' = res.limits
           /\ lastCheck' = CheckOf(key, res)
           /\ callsInWindow' = CallsAfter(key, res)
           /\ call' = NeverSwept(unswept.limits, ResultOf(unswept))
    /\ UNCHANGED <<now, blocked, panicMode, configured, logs, req>>

NextSweep ==
    \/ \E key \in Keys : CheckBoth(key)
    \/ Tick
    \/ Sweep

SpecSweep == InitSweep /\ [][NextSweep]_vars

(***************************************************************************)
(* sendLogs on its own: a call with any content, and the return of the     *)
(* endpoint call it makes                                                  *)
(***************************************************************************)
\* the string of n characters c
Text(n, c) == [i \in 1..n |-> c]

\* content.length of the strings handed to sendLogs, and file.size of the
\* files: 0, 1 and the lengths around MAX_MESSAGE_LENGTH
SendLengths ==
    {0, 1} \cup {MAX_MESSAGE_LENGTH + d : d \in (0 - MaxDelta)..MaxDelta}

\* the contents handed to sendLogs: strings (of plain characters, and of
\* characters escapeHtml lengthens) and Files
SendContents ==
    {[isFile |-> FALSE, text |-> Text(n, c), size |-> n] :
        n \in SendLengths, c \in {"a", "&"}}
    \cup {[isFile |-> TRUE, text |-> << >>, size |-> n] : n \in SendLengths}

\* sendLogs(chatId, content, filename, caption) runs up to the fetch of the
\* endpoint it chooses: sendMessage with the formatted text (the caption in
\* bold when there is one), or sendDocument with the File, or with the Blob
\* made of a long string
SendLogsCall(content, caption) ==
    /\ call = NoCall
    /\ LET path == sendLogs(content)
       IN  call' = [fn |-> "sendLogs", pc |-> path, content |-> content,
                    caption |-> caption,
                    sendMessageCalls |-> IF path = "sendMessage" THEN 1 ELSE 0,
                    sendDocumentCalls |-> IF path = "sendDocument" THEN 1 ELSE 0,
                    bold |-> (path = "sendMessage" /\ caption # << >>),
                    blob |-> (path = "sendDocument" /\ ~content.isFile),
                    message |-> IF path = "sendMessage"
                                THEN formattedMessage(content.text, caption)
                                ELSE << >>,
                    result |-> NoResult]
    /\ UNCHANGED <<now, limits, lastCheck, callsInWindow, blocked, panicMode,
                   configured, logs, req>>

\* the fetch of the endpoint ends: sendLogs returns the TelegramResponse of
\* response.json(), or rejects with what fetch or response.json() threw
EndpointReturn(outcome) ==
    /\ call.fn = "sendLogs"
    /\ call.pc \in {"sendMessage", "sendDocument"}
    /\ call' = [call EXCEPT !.pc = "returned", !.result = outcome]
    /\ UNCHANGED <<now, limits, lastCheck, callsInWindow, blocked, panicMode,
                   configured, logs, req>>

NextSend ==
    \/ \E content \in SendContents, caption \in {<< >>, <<"t">>} :
          SendLogsCall(content, caption)
    \/ \E outcome \in RelayOutcomes : EndpointReturn(outcome)

SpecSend == InitRL /\ [][NextSend]_vars

(***************************************************************************)
(* sanitizeContent on its own: a call with any text, and a second call     *)
(* with what the first returned                                            *)
(***************************************************************************)
\* the pieces the texts handed to sanitizeContent are made of: the literals
\* of the two URL expressions, domain labels, separators and a mention
SanPieces ==
    {<<"h", "t", "t", "p", ":", "/", "/">>,
     <<"h", "t", "t", "p", "s", ":", "/", "/">>,
     <<"w", "w", "w", ".">>,
     <<"W", "W", "W", ".">>,
     <<"t", ".", "m", "e", "/">>,
     <<"a", ".">>,
     <<"b", ".", "c", "o", "m">>,
     <<"c", "o">>,
     <<".">>,
     <<"@">>,
     <<" ">>,
     <<"/">>,
     <<" ", "@", "a", "b", "c">>}

\* the texts made of up to n pieces
RECURSIVE TextsOf(_)
TextsOf(n) ==
    IF n = 0 THEN {<< >>}
    ELSE TextsOf(n - 1) \cup {p \o t : p \in SanPieces, t \in TextsOf(n - 1)}

\* the two functions of the repository named sanitizeContent
SanVariants == {"lib/sanitizer", "lib/ratelimit"}

sanitize(variant, text) ==
    IF variant = "lib/sanitizer" THEN sanitizeContent(text)
    ELSE sanitizeContentRateLimit(text)

\* sanitizeContent(text) is called, with any of the texts
SanitizeCall ==
    /\ call = NoCall
    /\ \E variant \in SanVariants, text \in TextsOf(MaxPieces) :
          call' = [fn |-> "sanitizeContent", pc |-> "once", variant |-> variant,
                   text |-> text, once |-> sanitize(variant, text), twice |-> << >>]
    /\ UNCHANGED <<now, limits, lastCheck, callsInWindow, blocked, panicMode,
                   configured, logs, req>>

\* sanitizeContent is called with what the first call returned
SanitizeAgain ==
    /\ call.fn = "sanitizeContent"
    /\ call.pc = "once"
    /\ call' = [call EXCEPT !.pc = "twice", !.twice = sanitize(call.variant, call.once)]
    /\ UNCHANGED <<now, limits, lastCheck, callsInWindow, blocked, panicMode,
                   configured, logs, req>>

NextSan ==
    \/ SanitizeCall
    \/ SanitizeAgain

SpecSan == InitRL /\ [][NextSan]_vars

(***************************************************************************)
(* The upload handler.  One action per stretch of the handler between two  *)
(* awaits; the handlers of several requests interleave at the awaits.      *)
(***************************************************************************)
\* the limiter of a server that has been running: each key has no entry, or
\* the entry left by PreCount requests made at time 0 (requests answered 400
\* leave an entry and nothing else)
PreCounts == {0, maxRequests - 1, maxRequests}

Init ==
    /\ now = 0
    /\ \E c \in [Keys -> PreCounts] :
          /\ limits = [k \in {x \in Keys : c[x] > 0} |->
                          [count |-> c[k], firstRequest |-> 0]]
          /\ callsInWindow = c
    /\ lastCheck = NoCheck
    /\ blocked = {}
    /\ panicMode = FALSE
    /\ configured \in BOOLEAN
    /\ logs = {}
    /\ req = [r \in Requests |-> Idle]
    /\ call = NoCall

\* the response of the rate limit gate
RateLimited ==
    Response(429, "Rate limit exceeded", "Too many requests. Please try again later.")

\* the response of the IP block gate
AccessDenied ==
    Response(403, "Access Denied", "Your IP address has been blocked.")

\* the response when the bot token is missing
NotConfigured ==
    Response(500, "Server configuration error", "Telegram bot token is not configured")

rateLimitGateAfterBlockCheck(arrived, limitStatus) ==
    [arrived EXCEPT !.pc = "isIpBlocked"]

\* lines 513-526: a request the limiter does not allow is answered 429 at
\* once; an allowed one goes on to the call of isIpBlocked
rateLimitGate(arrived, limitStatus) ==
    IF ~limitStatus.allowed
    THEN [arrived EXCEPT !.pc = "done", !.response = RateLimited]
    ELSE [arrived EXCEPT !.pc = "isIpBlocked"]

persistedOnRejectAudited(r, le) == logs \cup {[req |-> r, entry |-> le]}

\* lines 514-535: the two gates return their response without a call of
\* saveLog: the logs collection stays as it is
persistedOnReject(r, le) == logs

\* lines 509-526: a request arrives; the handler runs the rate limit check
\* and, when allowed, calls isIpBlocked
Arrive(r, ip, input) ==
    /\ req[r].pc = "idle"
    /\ \A q \in DOMAIN req : q < r => req[q].pc # "idle"
    /\ callsInWindow[ip] < MaxCalls
    /\ LET limitStatus == check(limits, ip, now)
           arrived == [req[r] EXCEPT !.ip = ip, !.input = input,
                                     !.panic = panicMode,
                                     !.blockedOnArrival = (ip \in blocked),
                                     !.allowed = limitStatus.allowed,
                                     !.window = limitStatus.limits[ip].firstRequest]
       IN  /\ limits' = limitStatus.limits
           /\ lastCheck' = CheckOf(ip, limitStatus)
           /\ callsInWindow' = CallsAfter(ip, limitStatus)
           /\ req' = [req EXCEPT ![r] = rateLimitGate(arrived, limitStatus)]
           /\ logs' = IF ~limitStatus.allowed
                      THEN persistedOnReject(r, arrived.logEntry)
                      ELSE logs
    /\ UNCHANGED <<call, now, blocked, panicMode, configured>>

isIpBlockedInverted(ip) == ip \notin blocked

\* isIpBlocked(ip): count > 0 over the blocked_ips collection
isIpBlocked(ip) == ip \in blocked

configErrorStepIgnored(r, started) == [started EXCEPT !.pc = "params"]

\* lines 550-562: the handler answers a missing bot token; the entry it has
\* filled in is dropped with the handler's locals
configErrorStep(r, started) ==
    [started EXCEPT !.pc = "done",
                    !.logEntry = Failed(@, "Telegram bot token is not configured"),
                    !.response = NotConfigured]

\* lines 526-564: isIpBlocked returns (dbOk) or throws, outside the try
\* block; then the geolocation lookup is started, the entry is created and
\* the configuration is checked
IpBlockCheck(r, dbOk) ==
    /\ req[r].pc = "isIpBlocked"
    /\ LET ip == req[r].ip
           started == [req[r] EXCEPT !.isBlocked = "no",
                                     !.geo = getGeoLocation(ip),
                                     !.logEntry = NewLogEntry(ip, Absent, now)]
       IN  req' = [req EXCEPT ![r] =
                     IF ~dbOk
                     THEN [@ EXCEPT !.pc = "done", !.isBlocked = "threw",
                                    !.response = Uncaught("isIpBlocked")]
                     ELSE IF isIpBlocked(ip)
                     THEN [@ EXCEPT !.pc = "done", !.isBlocked = "yes",
                                    !.response = AccessDenied]
                     ELSE IF ~configured
                     THEN configErrorStep(r, started)
                     ELSE [started EXCEPT !.pc = "params"]]
    /\ logs' = IF dbOk /\ isIpBlocked(req[r].ip)
               THEN persistedOnReject(r, req[r].logEntry)
               ELSE logs
    /\ lastCheck' = NoCheck
    /\ UNCHANGED <<call, now, limits, callsInWindow, blocked, panicMode, configured>>

\* lines 564-735: the chat id and the body are read and validated; a valid
\* content is handed to sendLogs, which calls the endpoint
Parse(r) ==
    /\ req[r].pc = "params"
    /\ LET p == parseRequest(req[r].logEntry, req[r].input)
       IN  req' = [req EXCEPT ![r] =
                     IF p.kind = "respond"
                     THEN [@ EXCEPT !.pc = "done", !.logEntry = p.logEntry,
                                    !.response = p.response]
                     ELSE IF p.kind = "throw"
                     THEN [@ EXCEPT !.pc = "catch", !.thrown = p.thrown]
                     ELSE [@ EXCEPT !.pc = "sendLogs", !.logEntry = p.logEntry,
                                    !.content = p.content,
                                    !.relayPath = sendLogs(p.content),
                                    !.relayCalls = @ + 1]]
    /\ lastCheck' = NoCheck
    /\ UNCHANGED <<call, now, limits, callsInWindow, blocked, panicMode, configured, logs>>

\* the call of the endpoint ends: sendLogs returns the TelegramResponse, or
\* throws into the handler's catch block
RelayReturn(r, outcome) ==
    /\ req[r].pc = "sendLogs"
    /\ req' = [req EXCEPT ![r] =
                 IF outcome.throws
                 THEN [@ EXCEPT !.pc = "catch", !.result = outcome,
                                !.thrown = Thrown(outcome.description)]
                 ELSE [@ EXCEPT !.pc = "awaitGeo", !.result = outcome]]
    /\ lastCheck' = NoCheck
    /\ UNCHANGED <<call, now, limits, callsInWindow, blocked, panicMode, configured, logs>>

\* the lookup of ip-api.com ends and the promise of getGeoLocation resolves
GeoReturn(r, outcome) ==
    /\ req[r].pc \notin {"idle", "done"}
    /\ req[r].geo.state = "pending"
    /\ req' = [req EXCEPT ![r].geo =
                 [state |-> "resolved", value |-> getGeoLocationResult(outcome)],
                           ![r].geoOutcome = outcome]
    /\ lastCheck' = NoCheck
    /\ UNCHANGED <<call, now, limits, callsInWindow, blocked, panicMode, configured, logs>>

statusAfterRelayAlwaysSuccess(result) == "success"

\* logEntry.status after the relay returned result
statusAfterRelay(result) == IF ~result.ok THEN "failed" ELSE "success"

\* lines 738-771: geoPromise has resolved; the entry gets the location and
\* the status, and saveLog is called
AwaitGeo(r) ==
    /\ req[r].pc = "awaitGeo"
    /\ req[r].geo.state = "resolved"
    /\ LET geo == req[r].geo.value
           result == req[r].result
           le == [req[r].logEntry EXCEPT !.country = geo.country,
                                         !.countryCode = geo.countryCode,
                                         !.city = geo.city,
                                         !.latitude = geo.latitude,
                                         !.longitude = geo.longitude,
                                         !.status = statusAfterRelay(result),
                                         !.errorMessage =
                                            IF ~result.ok THEN relayErrorMessage(result)
                                            ELSE @]
       IN  req' = [req EXCEPT ![r] =
                     [@ EXCEPT !.pc = "saveLog", !.logEntry = le,
                               !.saveCalls = @ + 1]]
    /\ lastCheck' = NoCheck
    /\ UNCHANGED <<call, now, limits, callsInWindow, blocked, panicMode, configured, logs>>

\* lines 784-797: the catch block; geoPromise has resolved, the entry gets
\* the error and country, countryCode and city, and saveLog is called
CatchGeo(r) ==
    /\ req[r].pc = "catch"
    /\ req[r].geo.state = "resolved"
    /\ LET geo == req[r].geo.value
           le == [req[r].logEntry EXCEPT !.status = "failed",
                                         !.errorMessage = CaughtMessage(req[r].thrown),
                                         !.country = geo.country,
                                         !.countryCode = geo.countryCode,
                                         !.city = geo.city]
       IN  req' = [req EXCEPT ![r] =
                     [@ EXCEPT !.pc = "saveLogCatch", !.logEntry = le,
                               !.saveCalls = @ + 1]]
    /\ lastCheck' = NoCheck
    /\ UNCHANGED <<call, now, limits, callsInWindow, blocked, panicMode, configured, logs>>

saveLogDropped(r, log) == logs

saveLogTwice(r, log) ==
    logs \cup {[req |-> r, entry |-> log],
               [req |-> r, entry |-> [log EXCEPT !.createdAt = @ + 1]]}

\* saveLog(log): collection.insertOne(log); a persisted entry is kept with
\* the request it belongs to
saveLog(r, log) == logs \cup {[req |-> r, entry |-> log]}

\* lines 750-783 and 797-810: saveLog returns (dbOk) or throws, which the
\* handler catches and logs; then the handler responds
SaveLogReturn(r, dbOk) ==
    /\ req[r].pc \in {"saveLog", "saveLogCatch"}
    /\ logs' = IF dbOk THEN saveLog(r, req[r].logEntry) ELSE logs
    /\ req' = [req EXCEPT ![r] =
                 [@ EXCEPT !.pc = "done", !.saveThrew = ~dbOk,
                           !.response =
                              IF req[r].pc = "saveLogCatch"
                              THEN Response(500, "Internal server error",
                                            CaughtMessage(req[r].thrown))
                              ELSE respondAfterRelay(req[r].result, ~dbOk)]]
    /\ lastCheck' = NoCheck
    /\ UNCHANGED <<call, now, limits, callsInWindow, blocked, panicMode, configured>>

(***************************************************************************)
(* The dashboard's write side of the access gate                           *)
(***************************************************************************)
\* POST /api/dashboard/block-ip: blockIp(ip)
BlockIp(ip) ==
    /\ ip \notin blocked
    /\ blocked' = blocked \cup {ip}
    /\ lastCheck' = NoCheck
    /\ UNCHANGED <<call, now, limits, callsInWindow, panicMode, configured, logs, req>>

\* DELETE /api/dashboard/block-ip: unblockIp(ip)
UnblockIp(ip) ==
    /\ ip \in blocked
    /\ blocked' = blocked \ {ip}
    /\ lastCheck' = NoCheck
    /\ UNCHANGED <<call, now, limits, callsInWindow, panicMode, configured, logs, req>>

\* POST /api/dashboard/settings: setPanicMode(enabled)
SetPanicMode(enabled) ==
    /\ panicMode # enabled
    /\ panicMode' = enabled
    /\ req' = [r \in Requests |-> [req[r] EXCEPT !.panic = @ /\ enabled]]
    /\ lastCheck' = NoCheck
    /\ UNCHANGED <<call, now, limits, callsInWindow, blocked, configured, logs>>

Next ==
    \/ \E r \in Requests, ip \in Keys, input \in Inputs : Arrive(r, ip, input)
    \/ \E r \in Requests, dbOk \in BOOLEAN : IpBlockCheck(r, dbOk)
    \/ \E r \in Requests : Parse(r)
    \/ \E r \in Requests, outcome \in RelayOutcomes : RelayReturn(r, outcome)
    \/ \E r \in Requests, outcome \in GeoOutcomes : GeoReturn(r, outcome)
    \/ \E r \in Requests : AwaitGeo(r)
    \/ \E r \in Requests : CatchGeo(r)
    \/ \E r \in Requests, dbOk \in BOOLEAN : SaveLogReturn(r, dbOk)
    \/ \E ip \in Keys : BlockIp(ip)
    \/ \E ip \in Keys : UnblockIp(ip)
    \/ \E enabled \in BOOLEAN : SetPanicMode(enabled)

Spec == Init /\ [][Next]_vars

(***************************************************************************)
(* Several upload requests of one client in flight at once: each handler   *)
(* runs from one await to the next in one step, and the steps of the       *)
(* handlers interleave                                                     *)
(***************************************************************************)
\* the requests in flight
InFlight == 1..MaxInFlight

\* the client's IP, and the request it sends again and again
ConcKey == "10.0.0.1"

\* the values Date.now() takes while the requests are in flight: the start
\* of the window, its last instant and the first instant after it
ConcTimes == {0, windowMs, windowMs + 1}

\* time passes between two steps of the handlers
TickConc ==
    /\ \E t \in ConcTimes : t > now /\ now' = t
    /\ lastCheck' = NoCheck
    /\ UNCHANGED <<limits, callsInWindow, gateVars>>

ConcInput ==
    [chatId |-> ChatId,
     body |-> Body("application/json", TRUE, NoFile, <<"a">>, <<"t">>, << >>)]

\* the requests of the client served before the ones in flight: passed is
\* how many of them passed the rate limit gate, all in the window that
\* started at time 0
Served(passed) == [fn |-> "served", passed |-> passed]

InitConc ==
    /\ now = 0
    /\ \E c \in PreCounts :
          /\ limits = [k \in {x \in {ConcKey} : c > 0} |->
                          [count |-> c, firstRequest |-> 0]]
          /\ callsInWindow = [k \in Keys |-> IF k = ConcKey THEN c ELSE 0]
          /\ call = Served(c)
    /\ lastCheck = NoCheck
    /\ blocked = {}
    /\ panicMode = FALSE
    /\ configured = TRUE
    /\ logs = {}
    /\ req = [r \in InFlight |-> Idle]

NextConc ==
    \/ \E r \in InFlight : Arrive(r, ConcKey, ConcInput)
    \/ \E r \in InFlight : IpBlockCheck(r, TRUE)
    \/ \E r \in InFlight : Parse(r)
    \/ \E r \in InFlight : RelayReturn(r, RelayOk)
    \/ \E r \in InFlight : AwaitGeo(r)
    \/ \E r \in InFlight : SaveLogReturn(r, TRUE)
    \/ TickConc

SpecConc == InitConc /\ [][NextConc]_vars

(***************************************************************************)
(* registerUser (lib/auth) and the users collection (lib/database): each   *)
(* call runs from one await to the next in one step, and the steps of the  *)
(* calls interleave                                                        *)
(***************************************************************************)
Registrations == 1..MaxRegistrations

\* the usernames the calls are made with
Usernames == {"admin", "root"}

\* { success, message } as registerUser returns it
RegisterResult(success, message) == [success |-> success, message |-> message]

NoRegisterResult == RegisterResult(FALSE, "")

\* registerUser rejects with the error insertOne threw
RegisterThrew == RegisterResult(FALSE, "E11000 duplicate key error")

\* a call of registerUser that has not been made
NotCalled ==
    [pc |-> "idle", username |-> "", usersOnCall |-> 0,
     result |-> NoRegisterResult]

\* the users collection (users are told apart by username, which has a
\* unique index) and the calls of registerUser
RegisterState(users, regs) ==
    [fn |-> "registerUser", users |-> users, regs |-> regs]

InitReg ==
    /\ now = 0
    /\ limits = << >>
    /\ lastCheck = NoCheck
    /\ callsInWindow = [k \in Keys |-> 0]
    /\ blocked = {}
    /\ panicMode = FALSE
    /\ configured = TRUE
    /\ logs = {}
    /\ req = [r \in Requests |-> Idle]
    /\ call = RegisterState({}, [g \in Registrations |-> NotCalled])

\* the users collection and the calls after call g moved on to reg
RegisterStep(g, users, reg) ==
    /\ call' = RegisterState(users, [call.regs EXCEPT ![g] = reg])
    /\ UNCHANGED <<now, limits, lastCheck, callsInWindow, blocked, panicMode,
                   configured, logs, req>>

\* registerUser(username, password) is called and awaits findUserByUsername
RegisterCall(g, username) ==
    /\ call.regs[g].pc = "idle"
    /\ \A q \in Registrations : q < g => call.regs[q].pc # "idle"
    /\ RegisterStep(g, call.users,
                    [call.regs[g] EXCEPT !.pc = "findUserByUsername",
                                         !.username = username,
                                         !.usersOnCall = Cardinality(call.users)])

\* collection.findOne({ username })
findUserByUsername(users, username) == username \in users

\* collection.countDocuments()
getUserCount(users) == Cardinality(users)

\* findUserByUsername returns: a taken username ends the call, otherwise
\* the call awaits getUserCount
FindUserReturn(g) ==
    /\ call.regs[g].pc = "findUserByUsername"
    /\ RegisterStep(g, call.users,
          IF findUserByUsername(call.users, call.regs[g].username)
          THEN [call.regs[g] EXCEPT
                   !.pc = "done",
                   !.result = RegisterResult(FALSE, "Username already taken")]
          ELSE [call.regs[g] EXCEPT !.pc = "getUserCount"])

\* getUserCount returns: count > 0 ends the call, otherwise the call awaits
\* hashPassword
UserCountReturn(g) ==
    /\ call.regs[g].pc = "getUserCount"
    /\ RegisterStep(g, call.users,
          IF getUserCount(call.users) > 0
          THEN [call.regs[g] EXCEPT
                   !.pc = "done",
                   !.result = RegisterResult(FALSE,
                      "Registration is closed. Admin account already exists.")]
          ELSE [call.regs[g] EXCEPT !.pc = "hashPassword"])

\* hashPassword returns and the call awaits createUser
HashPasswordReturn(g) ==
    /\ call.regs[g].pc = "hashPassword"
    /\ RegisterStep(g, call.users, [call.regs[g] EXCEPT !.pc = "createUser"])

\* createUser(user): collection.insertOne(user); the unique index on
\* username makes the insert of a second user of the same name throw
createUser(users, username) ==
    IF username \in users
    THEN [users |-> users, threw |-> TRUE]
    ELSE [users |-> users \cup {username}, threw |-> FALSE]

\* createUser returns and registerUser returns success, or createUser
\* throws and registerUser rejects
CreateUserReturn(g) ==
    /\ call.regs[g].pc = "createUser"
    /\ LET created == createUser(call.users, call.regs[g].username)
       IN  RegisterStep(g, created.users,
             [call.regs[g] EXCEPT
                 !.pc = "done",
                 !.result = IF created.threw
                            THEN RegisterThrew
                            ELSE RegisterResult(TRUE, "User registered successfully")])

NextReg ==
    \/ \E g \in Registrations, username \in Usernames : RegisterCall(g, username)
    \/ \E g \in Registrations : FindUserReturn(g)
    \/ \E g \in Registrations : UserCountReturn(g)
    \/ \E g \in Registrations : HashPasswordReturn(g)
    \/ \E g \in Registrations : CreateUserReturn(g)

SpecReg == InitReg /\ [][NextReg]_vars

(***************************************************************************)
(* Properties                                                              *)
(***************************************************************************)
\* the entries of the logs collection that belong to request r
EntriesOf(r) == {e \in logs : e.req = r}

\* request r has been answered
Answered(r) == req[r].pc = "done"

\* C1: a request that arrives while panic mode is enabled, and is handled
\* with panic mode enabled all along, is never relayed and never answered 200
C1_PanicRejectsUploads ==
    \A r \in Requests :
        req[r].panic => req[r].relayCalls = 0 /\ req[r].response.status # 200

\* C2 as stated: every answered request whose IP was in the blocked set when
\* it arrived was answered 403 Access Denied
C2_BlockedOnArrivalIs403 ==
    \A r \in Requests :
        Answered(r) /\ req[r].blockedOnArrival => req[r].response = AccessDenied

\* C2 amended: when isIpBlocked returns for a request (one that passed the
\* rate limit) and the IP is in the blocked set at that moment, the request
\* is answered 403 Access Denied in that step, whatever its body and the
\* count of its limiter entry
C2_BlockedAtLookupIs403 ==
    [][\A r \in Requests :
          (/\ req[r].pc = "isIpBlocked"
           /\ req'[r].pc # "isIpBlocked"
           /\ req'[r].isBlocked # "threw"
           /\ req[r].ip \in blocked)
          => (req'[r].pc = "done" /\ req'[r].response = AccessDenied)]_vars

\* C2 witness: a request with an invalid body from an IP whose limiter entry
\* is at capacity was answered 403
C2_Witness ==
    \E r \in Requests :
        /\ Answered(r)
        /\ req[r].response = AccessDenied
        /\ parseRequest(req[r].logEntry, req[r].input).kind # "send"
        /\ req[r].ip \in DOMAIN limits
        /\ limits[req[r].ip].count = maxRequests

\* C3: of the calls of check(key) made since the entry of key was created,
\* exactly the first maxRequests are allowed; every later one is rejected
\* with remaining 0, the 11th included
C3_Capacity ==
    lastCheck # NoCheck =>
        /\ lastCheck.allowed <=> (callsInWindow[lastCheck.key] <= maxRequests)
        /\ ~lastCheck.allowed => lastCheck.remaining = 0
        /\ callsInWindow[lastCheck.key] = 11 => ~lastCheck.allowed

\* C3 witness: the 11th call within a window has been made and was rejected
C3_Witness ==
    /\ lastCheck # NoCheck
    /\ callsInWindow[lastCheck.key] = 11
    /\ ~lastCheck.allowed
    /\ lastCheck.remaining = 0

\* C4: a call check(key) on an existing entry at a time later than
\* firstRequest + windowMs is allowed with remaining maxRequests - 1 and
\* replaces the entry by {count 1, firstRequest now}; a call at a time up to
\* firstRequest + windowMs keeps firstRequest and never lowers count
C4_HardReset ==
    [][\A k \in Keys :
          (lastCheck'.key = k /\ k \in DOMAIN limits)
          => IF now > limits[k].firstRequest + windowMs
             THEN /\ lastCheck'.allowed
                  /\ lastCheck'.remaining = maxRequests - 1
                  /\ limits'[k] = [count |-> 1, firstRequest |-> now]
             ELSE /\ limits'[k].firstRequest = limits[k].firstRequest
                  /\ limits'[k].count >= limits[k].count]_vars

\* C4 witness: a key that was being rejected (more than maxRequests calls in
\* its window) has been allowed again by a reset
C4_Witness ==
    /\ lastCheck.key \in Keys
    /\ lastCheck.priorCalls > maxRequests
    /\ lastCheck.allowed
    /\ lastCheck.remaining = maxRequests - 1
    /\ limits[lastCheck.key] = [count |-> 1, firstRequest |-> now]

\* C5: every persisted entry with status success belongs to a request for
\* which the relay was called and returned ok: true
C5_SuccessOnlyIfRelayOk ==
    \A e \in logs :
        e.entry.status = "success"
        => /\ req[e.req].relayCalls = 1
           /\ ~req[e.req].result.throws
           /\ req[e.req].result.ok

\* C5 witness: an entry with status success has been persisted
C5_Witness ==
    \E e \in logs : e.entry.status = "success" /\ req[e.req].result.ok

\* C6: every persisted entry with status failed has a non-empty errorMessage
C6_FailedHasMessage ==
    \A e \in logs :
        e.entry.status = "failed" => e.entry.errorMessage \notin {Absent, ""}

\* C6 witness: a failed entry was persisted for a relay failure whose
\* response had an empty or missing description
C6_Witness ==
    \E e \in logs :
        /\ e.entry.status = "failed"
        /\ ~req[e.req].result.throws
        /\ req[e.req].result.description \in {Absent, ""}

RelayFailed(r) ==
    req[r].relayCalls = 1 /\ (req[r].result.throws \/ ~req[r].result.ok)

UpstreamDescription(r) ==
    IF req[r].result.description \in {Absent, ""}
    THEN "Telegram API error"
    ELSE req[r].result.description

C9_ConfigErrorPersisted ==
    \A r \in Requests :
        (Answered(r) /\ req[r].response = NotConfigured)
        => \E e \in EntriesOf(r) : e.entry.status = "failed"

\* C10: the step that answers a request 429 or 403 leaves the logs
\* collection, the block list and panic mode as they are, and changes no
\* limiter entry of another key (none at all for a 403); such a request has
\* no persisted entry and caused no call of sendLogs or saveLog
C10_AccessControlFrame ==
    [][\A r \in Requests :
          (/\ req[r].pc # "done"
           /\ req'[r].pc = "done"
           /\ req'[r].response.status \in {429, 403})
          => /\ logs' = logs
             /\ blocked' = blocked
             /\ panicMode' = panicMode
             /\ \A k \in Keys \ {req'[r].ip} :
                   /\ (k \in DOMAIN limits') = (k \in DOMAIN limits)
                   /\ k \in DOMAIN limits => limits'[k] = limits[k]
             /\ req'[r].response.status = 403 => limits' = limits
             /\ \A e \in logs' : e.req # r
             /\ req'[r].relayCalls = 0
             /\ req'[r].saveCalls = 0]_vars

\* C10 witness: a request was answered 403 after its rate limit check had
\* counted it, and nothing was persisted or relayed for it
C10_Witness ==
    \E r \in Requests :
        /\ Answered(r)
        /\ req[r].response.status = 403
        /\ req[r].allowed
        /\ limits[req[r].ip].count >= 1
        /\ EntriesOf(r) = {}
        /\ req[r].relayCalls = 0

\* request r passed both gates and the configuration check, and its chat id
\* and body have been read and validated
Parsed(r) ==
    /\ req[r].allowed
    /\ req[r].isBlocked = "no"
    /\ configured
    /\ req[r].pc \notin {"idle", "isIpBlocked", "params"}

\* the chat id of the path is missing or blank
BlankChatId(r) == trim(req[r].input.chatId) = << >>

\* C11: every request answered 400 after its chat id was known (a chat id
\* that is not blank) has a persisted entry with status failed and the
\* reason of the rejection as errorMessage; a request answered 400 for a
\* blank chat id has no persisted entry
C11_ValidationFailurePersisted ==
    \A r \in Requests :
        (Answered(r) /\ req[r].response.status = 400)
        => IF BlankChatId(r)
           THEN EntriesOf(r) = {}
           ELSE \E e \in EntriesOf(r) :
                   /\ e.entry.status = "failed"
                   /\ e.entry.errorMessage = req[r].logEntry.errorMessage

\* a text that is empty, or blank once sanitized and trimmed
BlankText(text) == trim(sanitizeContent(text)) = << >>

\* C12: a text/plain request with an empty or blank body whose handler got
\* as far as reading the body is answered 400, has no persisted entry and
\* caused no call of sendLogs
C12_EmptyPlainRejected ==
    \A r \in Requests :
        (/\ Parsed(r)
         /\ req[r].input.body.ctype = "text/plain"
         /\ BlankText(req[r].input.body.text))
        => /\ Answered(r)
           /\ req[r].response.status = 400
           /\ ~req[r].response.success
           /\ EntriesOf(r) = {}
           /\ req[r].relayCalls = 0
           /\ req[r].saveCalls = 0

\* C12 witness: a text/plain request whose body is white space only was
\* answered 400 Request body cannot be empty, with nothing persisted
C12_Witness ==
    \E r \in Requests :
        /\ Answered(r)
        /\ req[r].input.body.ctype = "text/plain"
        /\ req[r].input.body.text = <<" ", "\n">>
        /\ req[r].response.status = 400
        /\ req[r].response.error = "Request body cannot be empty"
        /\ EntriesOf(r) = {}

\* C13: an application/json request with a text that is not blank and a
\* chat id that is not blank, which passed both gates with the bot token
\* configured, whose relay call returned ok: true and whose saveLog
\* succeeded, is answered 200 with success: true and has exactly one
\* persisted entry, with status success and contentType text
C13_JsonHappyPath ==
    \A r \in Requests :
        (/\ Answered(r)
         /\ Parsed(r)
         /\ ~BlankChatId(r)
         /\ req[r].input.body.ctype = "application/json"
         /\ req[r].input.body.readable
         /\ trim(req[r].input.body.text) # << >>
         /\ ~req[r].result.throws
         /\ req[r].result.ok
         /\ ~req[r].saveThrew)
        => /\ req[r].response.status = 200
           /\ req[r].response.success
           /\ \E e \in EntriesOf(r) :
                 /\ EntriesOf(r) = {e}
                 /\ e.entry.status = "success"
                 /\ e.entry.contentType = "text"

\* C13 witness: such a request was answered 200 after one relay call, and
\* its entry is in the logs collection
C13_Witness ==
    \E r \in Requests :
        /\ Answered(r)
        /\ req[r].input.body.ctype = "application/json"
        /\ req[r].relayCalls = 1
        /\ req[r].result.ok
        /\ req[r].response.success
        /\ \E e \in EntriesOf(r) : e.entry.contentType = "text"

\* C14: a call of sendLogs makes exactly one endpoint call: sendMessage
\* exactly when the content is a string of at most 4000 characters,
\* sendDocument for every longer string and for every File
C14_PathByLength ==
    call.fn = "sendLogs" =>
        /\ call.sendMessageCalls + call.sendDocumentCalls = 1
        /\ call.sendMessageCalls = 1
              <=> (~call.content.isFile /\ Len(call.content.text) <= 4000)
        /\ call.sendDocumentCalls = 1
              <=> (call.content.isFile \/ Len(call.content.text) > 4000)

\* C14 witness: a string of 4001 characters went to sendDocument as a Blob,
\* and the call returned
C14_Witness ==
    /\ call.fn = "sendLogs"
    /\ call.pc = "returned"
    /\ ~call.content.isFile
    /\ Len(call.content.text) = 4001
    /\ call.sendDocumentCalls = 1
    /\ call.sendMessageCalls = 0
    /\ call.blob

\* request r is a multipart upload with a file that is not empty, and its
\* handler has read and validated the body
FileUpload(r) ==
    /\ Parsed(r)
    /\ ~BlankChatId(r)
    /\ req[r].input.body.ctype = "multipart/form-data"
    /\ req[r].input.body.readable
    /\ req[r].input.body.file.size > 0

\* the file of r passed the size check: the handler went on to line 621
PassedSizeCheck(r) == req[r].logEntry.contentType = "file"

\* C15: a multipart file that is not empty passes the size check exactly
\* when its size is at most 18 * 1024 * 1024 bytes: a file of exactly that
\* size passes, and a file one byte larger (as every file that does not
\* pass) is answered 400 and never relayed
C15_SizeLimit ==
    \A r \in Requests :
        FileUpload(r)
        => /\ PassedSizeCheck(r) <=> req[r].input.body.file.size <= 18 * 1024 * 1024
           /\ req[r].input.body.file.size = 18 * 1024 * 1024 => PassedSizeCheck(r)
           /\ ~PassedSizeCheck(r)
                 => /\ Answered(r)
                    /\ req[r].response.status = 400
                    /\ req[r].response.error = "File size exceeds 18MB limit"
                    /\ req[r].relayCalls = 0
           /\ req[r].input.body.file.size = 18 * 1024 * 1024 + 1 => ~PassedSizeCheck(r)

\* C15 witness: a file of exactly 18 MiB with an allowed extension was
\* handed to sendLogs
C15_Witness ==
    \E r \in Requests :
        /\ FileUpload(r)
        /\ req[r].input.body.file.size = 18 * 1024 * 1024
        /\ PassedSizeCheck(r)
        /\ req[r].relayCalls = 1
        /\ req[r].relayPath = "sendDocument"

\* the effective filename of a multipart upload: the custom override, else
\* the original name of the file, else logs.txt
EffectiveName(body) ==
    IF body.filename # << >> THEN body.filename
    ELSE IF body.file.name # << >> THEN body.file.name
    ELSE DefaultFilename

\* the extension of a name: the lower-cased name from its last '.', the
\* whole lower-cased name when it has no '.'
Extension(name) ==
    LET lower == toLowerCase(name)
    IN  substring(lower, lastIndexOf(lower, "."))

\* C16: a multipart file within the size limit is handed to sendLogs exactly
\* when the extension of its effective filename is .log, .txt or .zip; every
\* other upload is answered 400 and never relayed
C16_ExtensionCheck ==
    \A r \in Requests :
        (FileUpload(r) /\ PassedSizeCheck(r))
        => /\ req[r].relayCalls = 1
                <=> Extension(EffectiveName(req[r].input.body)) \in allowedExtensions
           /\ req[r].relayCalls = 0
                => /\ Answered(r)
                   /\ req[r].response.status = 400
                   /\ req[r].response.error = "Only .log, .txt, and .zip files are allowed"

\* C17: sanitizeContent applied to its own result returns that result, for
\* both functions of that name
C17_Idempotent ==
    (call.fn = "sanitizeContent" /\ call.pc = "twice") => call.twice = call.once

\* the token is part of the text s
Contains(s, token) ==
    \E i \in 1..Len(s) :
        i + Len(token) - 1 <= Len(s) /\ SubSeq(s, i, i + Len(token) - 1) = token

\* C17 witness: a text with a URL and a mention was sanitized to a text with
\* both tokens, and sanitizing that again changed nothing
C17_Witness ==
    /\ call.fn = "sanitizeContent"
    /\ call.pc = "twice"
    /\ call.once # call.text
    /\ Contains(call.once, LinkRemoved)
    /\ Contains(call.once, MentionRemoved)
    /\ call.twice = call.once

\* the response of a request whose lookup was started, as fixed by its body,
\* the relay result and nothing else: the 400 of the validation, the 500 of
\* the catch block, or the 502 or 200 after the relay
ResponseWithoutGeo(r) ==
    LET p == parseRequest(NewLogEntry(req[r].ip, Absent, 0), req[r].input)
    IN  IF p.kind = "respond" THEN p.response
        ELSE IF p.kind = "throw"
        THEN Response(500, "Internal server error", p.thrown.message)
        ELSE IF req[r].result.throws
        THEN Response(500, "Internal server error", req[r].result.description)
        ELSE IF req[r].result.ok
        THEN Success("Logs sent successfully to Telegram")
        ELSE Response(502, "Failed to send logs to Telegram",
                      IF req[r].result.description \in {Absent, ""}
                      THEN "Unknown Telegram API error"
                      ELSE req[r].result.description)

\* the lookup of r was started and its fetch failed: it answered with a
\* status other than success, or it threw
LookupFailed(r) == req[r].geoOutcome \in {"fail", "throws"}

\* C18: the response of a request whose handler started the lookup (with
\* the bot token configured) is fixed by the body and the relay result, the
\* same whether the lookup succeeded, failed or threw; the entries persisted
\* for a request whose lookup failed have country, countryCode, city,
\* latitude and longitude absent
C18_GeoNeverChangesResult ==
    \A r \in Requests :
        /\ (Answered(r) /\ Parsed(r)) => req[r].response = ResponseWithoutGeo(r)
        /\ LookupFailed(r)
             => \A e \in EntriesOf(r) :
                   /\ e.entry.country = Absent
                   /\ e.entry.countryCode = Absent
                   /\ e.entry.city = Absent
                   /\ e.entry.latitude = Absent
                   /\ e.entry.longitude = Absent

\* C18 witness: a request whose lookup threw was answered 200 and its entry
\* persisted without location
C18_Witness ==
    \E r \in Requests :
        /\ Answered(r)
        /\ req[r].geoOutcome = "throws"
        /\ req[r].response.status = 200
        /\ \E e \in EntriesOf(r) : e.entry.status = "success" /\ e.entry.country = Absent

\* C19: a handler whose relay call has returned never waits for a lookup
\* that is still pending with its response not yet produced
C19_ResponseBeforeGeo ==
    \A r \in Requests :
        (req[r].pc = "awaitGeo" /\ req[r].geo.state = "pending")
        => req[r].response # NoResponse

\* something was thrown while r was handled: by isIpBlocked, by the reading
\* of the body, or by the relay call
ThrewWhileHandling(r) == req[r].isBlocked = "threw" \/ req[r].thrown.thrown

\* C20: a request during whose handling something was thrown is answered
\* 500 Internal server error by the handler, saveLog is called for it once,
\* and unless saveLog throws an entry with status failed is persisted
C20_ExceptionsCaught ==
    \A r \in Requests :
        (Answered(r) /\ ThrewWhileHandling(r))
        => /\ req[r].response.status = 500
           /\ req[r].response.message = "Internal server error"
           /\ req[r].saveCalls = 1
           /\ ~req[r].saveThrew
                => \E e \in EntriesOf(r) : e.entry.status = "failed"

\* what the handler of r does with the chat id and the body of its request
ParseOutcome(r) == parseRequest(NewLogEntry(req[r].ip, Absent, 0), req[r].input).kind

\* C21: every request whose chat id or body is rejected by the validation,
\* or whose body cannot be parsed, is answered 400 Invalid request
C21_InputErrorsAre400 ==
    \A r \in Requests :
        (Answered(r) /\ Parsed(r) /\ ParseOutcome(r) # "send")
        => /\ req[r].response.status = 400
           /\ req[r].response.message = "Invalid request"

\* the handler of r got past both gates: it started the lookup, checked the
\* configuration, or read the chat id or the body
PastGates(r) ==
    \/ req[r].geo.state # "none"
    \/ req[r].response = NotConfigured
    \/ req[r].pc \notin {"idle", "isIpBlocked", "done"}
    \/ req[r].logEntry.status # Absent
    \/ req[r].relayCalls > 0

\* C22: isIpBlocked is called only for a request the limiter allowed; the
\* lookup, the configuration check and the reading of the body happen only
\* after isIpBlocked answered no; a request the limiter does not allow is
\* answered 429 at once, with no call of isIpBlocked
C22_GateOrder ==
    \A r \in Requests :
        /\ req[r].isBlocked # "unknown" => req[r].allowed
        /\ PastGates(r) => (req[r].allowed /\ req[r].isBlocked = "no")
        /\ (req[r].pc # "idle" /\ ~req[r].allowed)
             => /\ Answered(r)
                /\ req[r].response = RateLimited
                /\ req[r].isBlocked = "unknown"

\* C22 witness: a request from an IP that was in the blocked set when it
\* arrived was answered 429, with no call of isIpBlocked
C22_Witness ==
    \E r \in Requests :
        /\ Answered(r)
        /\ req[r].blockedOnArrival
        /\ req[r].response.status = 429
        /\ req[r].isBlocked = "unknown"

\* C24: sendLogs is called at most once for a request, and only for one
\* that passed the rate limit and the block check, with the bot token
\* configured and a chat id that is not blank; a request answered 400, 403,
\* 429 or 500 Server configuration error caused no call of sendLogs
C24_RelayOnceAfterGates ==
    \A r \in Requests :
        /\ req[r].relayCalls <= 1
        /\ req[r].relayCalls = 1
             => /\ req[r].allowed
                /\ req[r].isBlocked = "no"
                /\ configured
                /\ ~BlankChatId(r)
        /\ (Answered(r) /\ (req[r].response.status \in {400, 403, 429}
                             \/ req[r].response = NotConfigured))
             => req[r].relayCalls = 0

\* C24 witness: a request whose relay call returned ok: false was answered
\* 502 after that one call
C24_Witness ==
    \E r \in Requests :
        /\ Answered(r)
        /\ ~req[r].result.throws
        /\ ~req[r].result.ok
        /\ req[r].relayCalls = 1
        /\ req[r].response.status = 502

\* C23: a call check(key) that is rejected leaves the limiter map as it is
\* (count and firstRequest of key included), and every call check(key),
\* allowed or not, leaves the entries of all other keys as they are
C23_CheckFrame ==
    [][\A k \in Keys :
          lastCheck'.key = k
          => /\ ~lastCheck'.allowed => limits' = limits
             /\ \A o \in Keys \ {k} :
                   /\ (o \in DOMAIN limits') = (o \in DOMAIN limits)
                   /\ o \in DOMAIN limits => limits'[o] = limits[o]]_vars

\* C23 witness: a call was rejected at a time later than the start of the
\* window of its key, while another key has an entry, and the window still
\* starts where it did
C23_Witness ==
    /\ lastCheck.key \in Keys
    /\ ~lastCheck.allowed
    /\ now > limits[lastCheck.key].firstRequest
    /\ \E o \in Keys \ {lastCheck.key} : o \in DOMAIN limits

\* C27: every entry of the limiter map has a count from 1 to maxRequests;
\* an allowed call returns remaining = maxRequests - count of the entry it
\* left, a rejected call returns 0, and remaining is from 0 to
\* maxRequests - 1
C27_CountAndRemaining ==
    /\ \A k \in DOMAIN limits :
          limits[k].count >= 1 /\ limits[k].count <= maxRequests
    /\ lastCheck # NoCheck
         => /\ lastCheck.allowed
                 => lastCheck.remaining = maxRequests - limits[lastCheck.key].count
            /\ ~lastCheck.allowed => lastCheck.remaining = 0
            /\ lastCheck.remaining \in 0..(maxRequests - 1)

\* C27 witness: the call that filled the window of its key was allowed with
\* remaining 0, after a sweep had deleted an entry of another key
C27_Witness ==
    /\ lastCheck.key \in Keys
    /\ lastCheck.allowed
    /\ lastCheck.remaining = 0
    /\ limits[lastCheck.key].count = maxRequests
    /\ \E o \in Keys : o \notin DOMAIN limits /\ callsInWindow[o] = 0 /\ now > 0

\* C26: on every path of the handler at most one entry of the logs
\* collection belongs to a request and saveLog is called at most once for
\* it, also when saveLog throws; no step removes or changes an entry that
\* is in the collection
C26_AtMostOneEntry ==
    [][/\ logs \subseteq logs'
       /\ \A r \in Requests :
             /\ Cardinality({e \in logs' : e.req = r}) <= 1
             /\ req'[r].saveCalls <= 1]_vars

\* C26 witness: a request whose handling threw was answered from the catch
\* block with exactly one entry persisted
C26_Witness ==
    \E r \in Requests :
       /\ Answered(r)
       /\ req[r].thrown # NoError
       /\ req[r].saveCalls = 1
       /\ ~req[r].saveThrew
       /\ Cardinality(EntriesOf(r)) = 1

\* C28: a step of the sweep deletes exactly the entries with
\* now - firstRequest > windowMs and leaves every other entry as it is, and
\* every call of check returns the same allowed and remaining as the same
\* call on a limiter that received the same calls and was never swept
C28_SweepTransparent ==
    [][/\ lastCheck' # NoCheck => ResultOf(lastCheck') = call'.result
       /\ (now' = now /\ lastCheck' = NoCheck)
            => /\ DOMAIN limits' =
                    {k \in DOMAIN limits : now - limits[k].firstRequest <= windowMs}
               /\ \A k \in DOMAIN limits' : limits'[k] = limits[k]]_vars

\* C28 witness: a key was checked again after the sweep had deleted its
\* expired entry, which the limiter that never sweeps still had, while the
\* entry of another key, not expired, is still in the map
C28_Witness ==
    /\ call.fn = "neverSwept"
    /\ lastCheck.key \in Keys
    /\ lastCheck.allowed
    /\ lastCheck.priorCalls = 0
    /\ limits[lastCheck.key].firstRequest = now
    /\ now > windowMs
    /\ \E o \in Keys \ {lastCheck.key} :
          /\ o \in DOMAIN limits
          /\ limits[o].firstRequest > 0
          /\ limits[o].firstRequest < now
          /\ limits[o].count > 1

\* the requests in flight with key k that passed the rate limit gate in the
\* window of k that started at w
PassedIn(k, w) ==
    {r \in DOMAIN req : req[r].allowed /\ req[r].ip = k /\ req[r].window = w}

\* C25: with several requests of one IP in flight, their handlers
\* interleaving at every await, at most maxRequests requests with that key
\* pass the rate limit gate in one window (from the creation of the entry
\* to its replacement), the requests served earlier in the window counted
C25_AtMostNPerWindow ==
    call.fn = "served"
    => \A w \in ConcTimes :
          Cardinality(PassedIn(ConcKey, w))
             + (IF w = 0 THEN call.passed ELSE 0) <= maxRequests

\* C25 witness: three requests are in flight, none answered by saveLog yet:
\* one passed the gate as the last of its window, one was rejected in the
\* same window while the first was suspended, and one passed in the next
\* window while the first was still suspended
C25_Witness ==
    /\ call.fn = "served"
    /\ call.passed = maxRequests - 1
    /\ \E a, b, c \in DOMAIN req :
          /\ req[a].allowed /\ req[a].window = 0
          /\ req[a].pc \in {"isIpBlocked", "params", "sendLogs", "awaitGeo", "saveLog"}
          /\ req[b].pc = "done" /\ ~req[b].allowed /\ req[b].window = 0
          /\ req[b].response = RateLimited
          /\ req[c].allowed /\ req[c].window > 0
          /\ req[c].pc \in {"isIpBlocked", "params", "sendLogs", "awaitGeo", "saveLog"}

\* C29: after any sequence and interleaving of calls of registerUser at
\* most one user exists, and a call made when a user already exists does
\* not return success
C29_SingleUser ==
    call.fn = "registerUser"
    => /\ Cardinality(call.users) <= 1
       /\ \A g \in Registrations :
             call.regs[g].usersOnCall > 0 => ~call.regs[g].result.success

\* C30: every text handed to sendMessage by sendLogs (content of at most
\* MAX_MESSAGE_LENGTH characters, with or without caption) has at most
\* TelegramLimit characters
C30_MessageWithinLimit ==
    (call.fn = "sendLogs" /\ call.sendMessageCalls = 1)
    => Len(call.message) <= TelegramLimit

====
